---- MODULE Spec2Model ----
(***************************************************************************)
(* Model of src/difference.rs of dotter: hunkify_diff groups a line diff   *)
(* into context-padded hunks, print_diff numbers and prints them.          *)
(*                                                                         *)
(* usize values are 64-bit.  TLC integers are narrower, so a usize x is    *)
(* represented by its residue modulo 2^64 that lies closest to zero: a     *)
(* small natural stands for itself and a negative number -k stands for     *)
(* 2^64 - k.  Wrapping addition is then plain integer addition, and the    *)
(* unsigned order and the carry are computed by ULt and AddOverflows.      *)
(***************************************************************************)
EXTENDS Integers, Sequences, FiniteSets, TLC

\* Bounds of the explored inputs.
MaxLen == 6
MaxContext == 3
Lead == 8
MaxHugeOff == 1

\* usize::MAX = 2^64 - 1, as a residue.
UsizeMax == 0 - 1

None == <<>>
Some(x) == <<x>>

Kinds == {"Left", "Right", "Both"}

\* A diff::Result<String>; the text of the line at 0-based index i is i, so
\* that every line of a diff is told apart from the others.
LineOp(kind, i) == [kind |-> kind, text |-> i]

MkDiff(lead, ks) ==
    [i \in 1..(lead + Len(ks)) |->
        IF i <= lead THEN LineOp("Both", i - 1) ELSE LineOp(ks[i - lead], i - 1)]

Diffs ==
    {MkDiff(lead, ks) : lead \in {0, Lead},
                        ks \in UNION {[1..n -> Kinds] : n \in 0..MaxLen}}

\* Context sizes: the small ones, and the ones next to usize::MAX.
SmallContexts == 0..MaxContext

HugeContexts == {UsizeMax - k : k \in 0..MaxHugeOff}

Contexts == SmallContexts \cup HugeContexts

\* ---- usize arithmetic ----
ULt(a, b) ==
    IF a >= 0 /\ b < 0 THEN TRUE
    ELSE IF a < 0 /\ b >= 0 THEN FALSE
    ELSE a < b

UMin(a, b) == IF ULt(b, a) THEN b ELSE a

UMax(a, b) == IF ULt(a, b) THEN b ELSE a

AddOverflows(a, b) ==
    \/ a < 0 /\ b < 0
    \/ a < 0 /\ b >= 0 /\ a + b >= 0
    \/ a >= 0 /\ b < 0 /\ a + b >= 0

SaturatingSub(a, b) == IF ULt(a, b) THEN 0 ELSE a - b

\* ---- diff_nonempty / is_different ----
is_different(line) == line.kind # "Both"

RECURSIVE diff_nonempty_from(_, _)
diff_nonempty_from(d, i) ==
    IF i > Len(d) THEN FALSE
    ELSE IF d[i].kind = "Both" THEN diff_nonempty_from(d, i + 1)
    ELSE TRUE

diff_nonempty_first(d) == Len(d) > 0 /\ d[1].kind # "Both"

diff_nonempty(d) == diff_nonempty_from(d, 1)

\* ---- hunkify_diff ----
Ok(b) == [panic |-> "", any |-> b]
Panicked(msg) == [panic |-> msg, any |-> FALSE]

\* diff[position..=min(position + extra_lines, diff.len() - 1)].iter().any(is_different)
\* With overflow checks the addition and the subtraction panic on overflow;
\* without them they wrap.  The inclusive slice panics when its end is
\* usize::MAX, when it starts after end + 1, or when it ends past the diff.
ForwardWindow(d, pos, c, checked) ==
    LET sum == pos + c
        last == Len(d) - 1
        end == UMin(sum, last)
    IN  IF checked /\ AddOverflows(pos, c) THEN Panicked("attempt to add with overflow")
        ELSE IF checked /\ Len(d) = 0 THEN Panicked("attempt to subtract with overflow")
        ELSE IF end = UsizeMax THEN Panicked("attempted to index slice up to maximum usize")
        ELSE IF ULt(end + 1, pos) THEN Panicked("slice index starts after its end")
        ELSE IF ULt(Len(d), end + 1) THEN Panicked("range end index out of range")
        ELSE Ok(\E i \in pos..end : is_different(d[i + 1]))

\* diff[position.saturating_sub(extra_lines)..position].iter().any(is_different)
BackwardWindow(d, pos, c) ==
    \E i \in SaturatingSub(pos, c)..(pos - 1) : is_different(d[i + 1])

\* current_hunk.is_none()
is_none_always(cur) == TRUE

is_none(cur) == cur = None

\* if current_hunk.is_none() { current_hunk = Some((left, right, vec![])); }
OpenIfNone(cur, left, right) ==
    IF is_none(cur) THEN Some(<<left, right, <<>>>>) ELSE cur

\* current_hunk.as_mut().unwrap().2.push(line.clone())
PushLine(cur, line) == Some(<<cur[1][1], cur[1][2], Append(cur[1][3], line)>>)

\* hunks.push(hunk)
PushHunk_front(hs, hunk) == <<hunk>> \o hs

PushHunk(hs, hunk) == Append(hs, hunk)

\* The locals of hunkify_diff.
Locals(left, right, cur, hs, msg) ==
    [left |-> left, right |-> right, cur |-> cur, hunks |-> hs, panic |-> msg]

InitLocals == Locals(0, 0, None, <<>>, "")

\* diff::Result::Left(_) arm
ArmLeft(line, st) ==
    LET left == st.left + 1
    IN  Locals(left, st.right,
               PushLine(OpenIfNone(st.cur, left, st.right), line), st.hunks, "")

\* diff::Result::Right(_) arm
ArmRight(line, st) ==
    LET right == st.right + 1
    IN  Locals(st.left, right,
               PushLine(OpenIfNone(st.cur, st.left, right), line), st.hunks, "")

\* diff::Result::Both(_, _) arm
ArmBoth(d, c, checked, pos, st) ==
    LET line == d[pos + 1]
        left == st.left + 1
        right == st.right + 1
        fwd == ForwardWindow(d, pos, c, checked)
    IN  IF fwd.panic # "" THEN Locals(left, right, st.cur, st.hunks, fwd.panic)
        ELSE IF fwd.any
        THEN Locals(left, right, PushLine(OpenIfNone(st.cur, left, right), line),
                    st.hunks, "")
        ELSE IF BackwardWindow(d, pos, c)
        THEN IF st.cur = None
             THEN Locals(left, right, st.cur, st.hunks,
                         "called Option::unwrap() on a None value")
             ELSE Locals(left, right, PushLine(st.cur, line), st.hunks, "")
        ELSE IF st.cur # None
        THEN Locals(left, right, None, PushHunk(st.hunks, st.cur[1]), "")
        ELSE Locals(left, right, None, st.hunks, "")

\* One iteration of `for position in 0..diff.len()`.
LoopBody(d, c, checked, pos, st) ==
    LET line == d[pos + 1]
    IN  CASE line.kind = "Left" -> ArmLeft(line, st)
          [] line.kind = "Right" -> ArmRight(line, st)
          [] line.kind = "Both" -> ArmBoth(d, c, checked, pos, st)

\* if let Some(hunk) = current_hunk { hunks.push(hunk); }  hunks
FinalHunks_forget(hs, cur) == hs

FinalHunks(hs, cur) == IF cur # None THEN PushHunk(hs, cur[1]) ELSE hs

\* hunkify_diff as a function: the hunks it returns, or the panic it dies of.
RECURSIVE HunkifyFrom(_, _, _, _, _)
HunkifyFrom(d, c, checked, pos, st) ==
    IF st.panic # "" THEN [panic |-> st.panic, hunks |-> <<>>]
    ELSE IF pos = Len(d) THEN [panic |-> "", hunks |-> FinalHunks(st.hunks, st.cur)]
    ELSE HunkifyFrom(d, c, checked, pos + 1, LoopBody(d, c, checked, pos, st))

hunkify_diff(d, c, checked) == HunkifyFrom(d, c, checked, 0, InitLocals)

\* ---- print_hunk / print_diff ----
\* max_possible_line.to_string().len()
RECURSIVE Digits(_)
Digits(n) == IF n < 10 THEN 1 ELSE 1 + Digits(n \div 10)

\* One println! of print_hunk: the line and the numbers of its two columns
\* (None for a blank column).
Row(line, left, right) == [line |-> Some(line), left |-> left, right |-> right]

\* println!() between two hunks
BlankRow == [line |-> None, left |-> None, right |-> None]

RECURSIVE PrintFrom(_, _, _, _)
PrintFrom(left_line, right_line, ops, i) ==
    IF i > Len(ops) THEN <<>>
    ELSE CASE ops[i].kind = "Left" ->
                <<Row(ops[i], Some(left_line + 1), None)>>
                    \o PrintFrom(left_line + 1, right_line, ops, i + 1)
           [] ops[i].kind = "Both" ->
                <<Row(ops[i], Some(left_line + 1), Some(right_line + 1))>>
                    \o PrintFrom(left_line + 1, right_line + 1, ops, i + 1)
           [] ops[i].kind = "Right" ->
                <<Row(ops[i], None, Some(right_line + 1))>>
                    \o PrintFrom(left_line, right_line + 1, ops, i + 1)

print_hunk(left_line, right_line, hunk) == PrintFrom(left_line, right_line, hunk, 1)

\* max(last_hunk.0, last_hunk.1) + last_hunk.2.len()
MaxPossibleLine_min(last) == UMin(last[1], last[2]) + Len(last[3])

MaxPossibleLine(last) == UMax(last[1], last[2]) + Len(last[3])

\* ---- the state machine ----
VARIABLES
    diff,                \* the Diff handed to print_diff
    extra_lines,         \* the context size
    overflow_checks,     \* whether the build checks arithmetic overflow
    pc,                  \* "loop", "returned", "print", "done", "panicked"
    position,            \* loop index of hunkify_diff
    left_line_number,
    right_line_number,
    current_hunk,
    hunks,               \* hunkify_diff's hunks; in print_diff, `diff` after the pop
    panic,               \* the panic message, "" when none
    last_hunk,
    max_possible_line,
    max_possible_digits,
    printed,             \* rows written to stdout
    next_hunk            \* index of `for hunk in diff` in print_diff

vars == <<diff, extra_lines, overflow_checks, pc, position, left_line_number,
          right_line_number, current_hunk, hunks, panic, last_hunk,
          max_possible_line, max_possible_digits, printed, next_hunk>>

inputs == <<diff, extra_lines, overflow_checks>>
printVars == <<last_hunk, max_possible_line, max_possible_digits, printed, next_hunk>>

Init ==
    /\ diff \in Diffs
    /\ \/ extra_lines \in SmallContexts
       \/ extra_lines \in HugeContexts
    /\ overflow_checks \in BOOLEAN
    /\ pc = "loop"
    /\ position = 0
    /\ left_line_number = 0
    /\ right_line_number = 0
    /\ current_hunk = None
    /\ hunks = <<>>
    /\ panic = ""
    /\ last_hunk = None
    /\ max_possible_line = 0
    /\ max_possible_digits = 0
    /\ printed = <<>>
    /\ next_hunk = 1

CurrentLocals == Locals(left_line_number, right_line_number, current_hunk, hunks, "")

\* The locals after one iteration of `for position in 0..diff.len()`; a
\* panic ends the run where it happens.
StoreLocals(st) ==
    /\ left_line_number' = st.left
    /\ right_line_number' = st.right
    /\ current_hunk' = st.cur
    /\ hunks' = st.hunks
    /\ panic' = st.panic
    /\ pc' = IF st.panic # "" THEN "panicked" ELSE "loop"
    /\ position' = IF st.panic # "" THEN position ELSE position + 1

\* An iteration on a Removed line.
LineLeft ==
    /\ pc = "loop"
    /\ position < Len(diff)
    /\ diff[position + 1].kind = "Left"
    /\ StoreLocals(LoopBody(diff, extra_lines, overflow_checks, position, CurrentLocals))
    /\ UNCHANGED <<inputs, printVars>>

\* An iteration on an Added line.
LineRight ==
    /\ pc = "loop"
    /\ position < Len(diff)
    /\ diff[position + 1].kind = "Right"
    /\ StoreLocals(LoopBody(diff, extra_lines, overflow_checks, position, CurrentLocals))
    /\ UNCHANGED <<inputs, printVars>>

\* An iteration on an Unchanged line.
LineBoth ==
    /\ pc = "loop"
    /\ position < Len(diff)
    /\ diff[position + 1].kind = "Both"
    /\ StoreLocals(LoopBody(diff, extra_lines, overflow_checks, position, CurrentLocals))
    /\ UNCHANGED <<inputs, printVars>>

\* The end of hunkify_diff: the hunk in progress is pushed, hunks is returned.
ReturnHunks ==
    /\ pc = "loop"
    /\ position = Len(diff)
    /\ hunks' = FinalHunks(hunks, current_hunk)
    /\ current_hunk' = None
    /\ pc' = "returned"
    /\ UNCHANGED <<inputs, position, left_line_number, right_line_number, panic, printVars>>

\* let last_hunk = diff.pop().expect("at least one hunk"); and the width
PopLastHunk ==
    /\ pc = "returned"
    /\ IF hunks = <<>>
       THEN /\ panic' = "at least one hunk"
            /\ pc' = "panicked"
            /\ UNCHANGED <<hunks, last_hunk, max_possible_line, max_possible_digits>>
       ELSE /\ last_hunk' = Some(hunks[Len(hunks)])
            /\ hunks' = SubSeq(hunks, 1, Len(hunks) - 1)
            /\ max_possible_line' = MaxPossibleLine(hunks[Len(hunks)])
            /\ max_possible_digits' = Digits(MaxPossibleLine(hunks[Len(hunks)]))
            /\ pc' = "print"
            /\ UNCHANGED panic
    /\ UNCHANGED <<inputs, position, left_line_number, right_line_number,
                   current_hunk, printed, next_hunk>>

\* for hunk in diff { print_hunk(..); println!(); }
PrintHunk ==
    /\ pc = "print"
    /\ next_hunk <= Len(hunks)
    /\ LET hunk == hunks[next_hunk]
       IN  printed' = printed \o print_hunk(hunk[1], hunk[2], hunk[3]) \o <<BlankRow>>
    /\ next_hunk' = next_hunk + 1
    /\ UNCHANGED <<inputs, pc, position, left_line_number, right_line_number,
                   current_hunk, hunks, panic, last_hunk, max_possible_line,
                   max_possible_digits>>

\* print_hunk(last_hunk.0, last_hunk.1, last_hunk.2, max_possible_digits)
PrintLastHunk ==
    /\ pc = "print"
    /\ next_hunk > Len(hunks)
    /\ printed' = printed \o print_hunk(last_hunk[1][1], last_hunk[1][2], last_hunk[1][3])
    /\ pc' = "done"
    /\ UNCHANGED <<inputs, position, left_line_number, right_line_number,
                   current_hunk, hunks, panic, last_hunk, max_possible_line,
                   max_possible_digits, next_hunk>>

Next ==
    \/ LineLeft
    \/ LineRight
    \/ LineBoth
    \/ ReturnHunks
    \/ PopLastHunk
    \/ PrintHunk
    \/ PrintLastHunk

Spec == Init /\ [][Next]_vars

TypeOK ==
    /\ pc \in {"loop", "returned", "print", "done", "panicked"}
    /\ position \in 0..Len(diff)
    /\ (pc = "panicked") = (panic # "")

\* ---- vocabulary of the properties ----
\* hunkify_diff has returned (print_diff holds its result).
Returned == pc \in {"returned", "print", "done"} \/ panic = "at least one hunk"

\* The hunks hunkify_diff returned, in output order.
Result == hunks \o (IF last_hunk # None THEN <<last_hunk[1]>> ELSE <<>>)

RECURSIVE Concat(_)
Concat(hs) == IF hs = <<>> THEN <<>> ELSE hs[1][3] \o Concat(Tail(hs))

\* 0-based indices of the lines of diff that are not Unchanged.
Changes(d) == {q \in 0..(Len(d) - 1) : d[q + 1].kind # "Both"}

\* Places <<hunk, offset>> of hs that hold the line `line`.
Places(hs, line) ==
    {pl \in (1..Len(hs)) \X (1..(Lead + MaxLen + 1)) :
        pl[2] <= Len(hs[pl[1]][3]) /\ hs[pl[1]][3][pl[2]] = line}

Kept(hs, line) == Places(hs, line) # {}

Dist(p, q) == IF p < q THEN q - p ELSE p - q

\* Number of lines of the given kinds among the first n lines of d.
CountBefore(d, n, kinds) == Cardinality({i \in 1..n : d[i].kind \in kinds})

NumKept(hs) == Len(Concat(hs))

\* C1: once hunkify_diff has returned, every Removed or Added line of the
\* diff sits at exactly one place of exactly one returned hunk.
C1_ChangeInExactlyOneHunk ==
    Returned =>
        \A q \in Changes(diff) : Cardinality(Places(Result, diff[q + 1])) = 1

C1_Witness ==
    /\ Returned /\ Len(Result) >= 2 /\ Cardinality(Changes(diff)) >= 3
    /\ extra_lines = 1

\* C2: an Unchanged line at index p is kept in some returned hunk exactly
\* when the diff has a change at some index q with 1 <= |p - q| <= context.
C2_SymmetricWindow ==
    Returned =>
        \A p \in 0..(Len(diff) - 1) :
            diff[p + 1].kind = "Both" =>
                (Kept(Result, diff[p + 1]) <=>
                    \E q \in Changes(diff) : ~ULt(extra_lines, Dist(p, q)))

\* C3: the returned hunks hold lines of the diff at strictly increasing
\* indices, within a hunk and from one hunk to the next: disjoint ranges in
\* source order whose concatenation is a subsequence of the diff.
C3_OrderedSubsequence ==
    Returned =>
        LET cat == Concat(Result)
        IN  /\ \A i \in 1..Len(cat) :
                  /\ cat[i].text \in 0..(Len(diff) - 1)
                  /\ cat[i] = diff[cat[i].text + 1]
            /\ \A i \in 1..(Len(cat) - 1) : cat[i].text < cat[i + 1].text
            /\ \A h \in 1..(Len(Result) - 1) :
                  \A i \in 1..Len(Result[h][3]) : \A j \in 1..Len(Result[h + 1][3]) :
                      Result[h][3][i].text < Result[h + 1][3][j].text

C3_Witness ==
    /\ Returned /\ Len(Result) >= 2 /\ extra_lines = 1
    /\ \E h \in 1..Len(Result) : Len(Result[h][3]) >= 3

\* C4: every returned hunk is a non-empty run of consecutive lines of the
\* diff, and between two consecutive hunks lies at least one line, every
\* such line being Unchanged and kept in no hunk.
C4_NonEmptyContiguousGapped ==
    Returned =>
        /\ \A h \in 1..Len(Result) :
              LET ops == Result[h][3]
              IN  /\ ops # <<>>
                  /\ \A i \in 1..Len(ops) : ops[i] = diff[ops[1].text + i]
        /\ \A h \in 1..(Len(Result) - 1) :
              LET a == Result[h][3][Len(Result[h][3])].text
                  b == Result[h + 1][3][1].text
              IN  /\ a + 1 < b
                  /\ \A p \in (a + 1)..(b - 1) :
                        /\ diff[p + 1].kind = "Both"
                        /\ ~Kept(Result, diff[p + 1])

C4_Witness ==
    /\ Returned /\ Len(Result) >= 2
    /\ Result[2][3][1].text = Result[1][3][Len(Result[1][3])].text + 2

\* C5: for contexts c1 <= c2, hunkify_diff keeps at least as many lines with
\* c2 as with c1 and returns at most as many hunks.
C5_Monotone ==
    Returned =>
        \A c1 \in Contexts :
            LET r1 == hunkify_diff(diff, c1, overflow_checks)
            IN  (~ULt(extra_lines, c1) /\ r1.panic = "") =>
                    /\ NumKept(Result) >= NumKept(r1.hunks)
                    /\ Len(Result) <= Len(r1.hunks)

C7_AnchorsCountPrecedingLines ==
    Returned =>
        \A h \in 1..Len(Result) :
            LET first == Result[h][3][1].text
            IN  /\ Result[h][1] = CountBefore(diff, first, {"Left", "Both"})
                /\ Result[h][2] = CountBefore(diff, first, {"Right", "Both"})

\* The numbers of the printed rows.
PrintedNumbers ==
    {printed[i].left[1] : i \in {j \in 1..Len(printed) : printed[j].left # None}}
        \cup
    {printed[i].right[1] : i \in {j \in 1..Len(printed) : printed[j].right # None}}

\* C8: no printed line number exceeds max_possible_line, so none needs more
\* digits than max_possible_digits; anchors do not decrease from one hunk
\* to the next.
C8_WidthCoversPrintedNumbers ==
    pc \in {"print", "done"} =>
        /\ \A n \in PrintedNumbers :
              /\ n <= max_possible_line
              /\ Digits(n) <= max_possible_digits
        /\ \A h \in 1..(Len(Result) - 1) :
              /\ Result[h][1] <= Result[h + 1][1]
              /\ Result[h][2] <= Result[h + 1][2]

C8_Witness ==
    /\ pc = "done" /\ Len(Result) >= 2 /\ extra_lines \in SmallContexts
    /\ max_possible_digits = 2
    /\ \E n \in PrintedNumbers : n = max_possible_line

\* C9: the number printed next to a line is its 1-based position in its
\* document: 1 + the left (right) lines of the diff before it.
C9_PrintedNumbersAreLinePositions ==
    \A i \in 1..Len(printed) :
        printed[i].line # None =>
            LET t == printed[i].line[1].text
            IN  /\ printed[i].left # None =>
                      printed[i].left[1] = 1 + CountBefore(diff, t, {"Left", "Both"})
                /\ printed[i].right # None =>
                      printed[i].right[1] = 1 + CountBefore(diff, t, {"Right", "Both"})

\* C10: hunkify_diff never panics: the only panic of print_diff is the
\* failed expect on an empty hunk list.
C10_HunkifyNeverPanics == panic \in {"", "at least one hunk"}
====
